---- MODULE Spec2Model ----
(***************************************************************************)
(* Model of tools/bump_version.py (the semantic-version bumper) and of     *)
(* tools/validate_commits.py (the commit-message validator).               *)
(*                                                                         *)
(* A Python str is modelled as a sequence of one-character strings, so     *)
(* that strip(), split(), int(), f-strings and the regular expressions are *)
(* computed character by character, as the code computes them.             *)
(***************************************************************************)
EXTENDS Integers, Sequences, FiniteSets

VARIABLES
    versionFile,      \* content of the VERSION file, or NoFile
    changelog,        \* content of CHANGELOG.md, or NoFile
    args,             \* the parsed command line of the current run
    env,              \* what the outside world answered in this run: git, sync step, date
    pc,               \* position of the current run inside main()
    current_version,  \* main(): current_version
    new_version,      \* main(): new_version
    bump_type,        \* main(): bump_type
    commits,          \* main(): commits
    stdout,           \* the lines print() wrote on stdout in this run
    exitCode,         \* exit status of the run, read once pc = "exited"
    syncRan,          \* whether the version_sync.py subprocess was started in this run
    versionFile0,     \* VERSION content when the current run started
    changelog0,       \* CHANGELOG.md when the current run started
    lastWritten,      \* the version the last write_version() wrote, NoVersion before any
    writes,           \* number of write_version() calls in the current run
    runs,             \* number of runs started
    message,          \* argument of is_conventional_commit
    verdict           \* return value of is_conventional_commit

vars == <<versionFile, changelog, args, env, pc, current_version, new_version,
          bump_type, commits, stdout, exitCode, syncRan, versionFile0, changelog0,
          lastWritten, writes, runs, message, verdict>>

\* Values that stand for "no such file" and for None: one-element sequences whose
\* element is no character, so that they differ from every str.
NoFile == <<"NoFile">>
NoVersion == <<"NoVersion">>
NoManual == <<"NoManual">>
NoVerdict == <<FALSE, "not called">>

(***************************************************************************)
(* Python str primitives                                                   *)
(***************************************************************************)
Lowers == <<"a","b","c","d","e","f","g","h","i","j","k","l","m",
            "n","o","p","q","r","s","t","u","v","w","x","y","z">>
Uppers == <<"A","B","C","D","E","F","G","H","I","J","K","L","M",
            "N","O","P","Q","R","S","T","U","V","W","X","Y","Z">>
Digits == <<"0","1","2","3","4","5","6","7","8","9">>

IsLower(c) == \E i \in DOMAIN Lowers : Lowers[i] = c
IsUpper(c) == \E i \in DOMAIN Uppers : Uppers[i] = c
IsDigit(c) == \E i \in DOMAIN Digits : Digits[i] = c

\* str.upper() on one character
ToUpper(c) ==
    IF IsLower(c) THEN Uppers[CHOOSE i \in DOMAIN Lowers : Lowers[i] = c] ELSE c

\* re.IGNORECASE compares characters after case folding
ToLower(c) ==
    IF IsUpper(c) THEN Lowers[CHOOSE i \in DOMAIN Uppers : Uppers[i] = c] ELSE c

UpperStr(s) == [i \in 1..Len(s) |-> ToUpper(s[i])]
LowerStr(s) == [i \in 1..Len(s) |-> ToLower(s[i])]

\* whitespace of str.strip() and of the regex class \s
IsSpace(c) == c \in {" ", "\t", "\n", "\r", "\f"}

\* the characters the regex '.' matches (no re.DOTALL anywhere)
IsDot(c) == c # "\n"

\* str.startswith
StartsWith(s, p) == Len(s) >= Len(p) /\ SubSeq(s, 1, Len(p)) = p

\* re.match(r'^p', s, re.IGNORECASE) for a literal p written in lower case
StartsWithCI(s, p) == StartsWith(LowerStr(s), p)

\* the 'in' operator on str
Contains(s, p) == \E i \in 0..(Len(s) - Len(p)) : SubSeq(s, i + 1, i + Len(p)) = p

\* str.strip()
Strip(s) ==
    LET keep == {i \in 1..Len(s) : ~IsSpace(s[i])}
    IN  IF keep = {} THEN <<>>
        ELSE SubSeq(s, CHOOSE i \in keep : \A j \in keep : i <= j,
                       CHOOSE i \in keep : \A j \in keep : i >= j)

\* str.split(sep) for a one-character sep: always at least one element
RECURSIVE Split(_, _)
Split(s, sep) ==
    LET at == {i \in 1..Len(s) : s[i] = sep}
    IN  IF at = {} THEN <<s>>
        ELSE LET k == CHOOSE i \in at : \A j \in at : i <= j
             IN  <<SubSeq(s, 1, k - 1)>> \o Split(SubSeq(s, k + 1, Len(s)), sep)

\* '\n'.join(lines)
RECURSIVE JoinLines(_)
JoinLines(ls) ==
    IF ls = <<>> THEN <<>>
    ELSE IF Len(ls) = 1 THEN ls[1]
    ELSE ls[1] \o <<"\n">> \o JoinLines(Tail(ls))

(***************************************************************************)
(* analyze_commits                                                         *)
(***************************************************************************)
BREAKING_CHANGE == <<"B","R","E","A","K","I","N","G"," ","C","H","A","N","G","E">>
FEAT == <<"f","e","a","t">>
FIX == <<"f","i","x">>

\* r'^BREAKING CHANGE:' under re.IGNORECASE
MatchBreakingPrefix(commit) ==
    StartsWith(UpperStr(commit), BREAKING_CHANGE \o <<":">>)

\* r'^feat.*!:' and r'^fix.*!:' under re.IGNORECASE (type is FEAT or FIX)
MatchBangPattern(commit, type) ==
    /\ StartsWithCI(commit, type)
    /\ \E i \in (Len(type) + 1)..(Len(commit) - 1) :
          /\ commit[i] = "!"
          /\ commit[i + 1] = ":"
          /\ \A k \in (Len(type) + 1)..(i - 1) : IsDot(commit[k])

\* any(re.match(pattern, commit, re.IGNORECASE) for pattern in breaking_patterns)
MatchesBreakingPatterns(commit) ==
    \/ MatchBreakingPrefix(commit)
    \/ MatchBangPattern(commit, FEAT)
    \/ MatchBangPattern(commit, FIX)

\* r'^feat(\(.+\))?:' and r'^fix(\(.+\))?:' under re.IGNORECASE
MatchFeatureFixPattern(commit, type) ==
    LET n == Len(type)
    IN  /\ StartsWithCI(commit, type)
        /\ Len(commit) > n
        /\ \/ commit[n + 1] = ":"
           \/ /\ commit[n + 1] = "("
              /\ \E j \in (n + 3)..(Len(commit) - 1) :
                    /\ commit[j] = ")"
                    /\ commit[j + 1] = ":"
                    /\ \A k \in (n + 2)..(j - 1) : IsDot(commit[k])

\* any(re.match(pattern, commit, re.IGNORECASE) for pattern in feature_fix_patterns)
MatchesFeatureFixPatterns(commit) ==
    \/ MatchFeatureFixPattern(commit, FEAT)
    \/ MatchFeatureFixPattern(commit, FIX)

\* the body of the for loop: a breaking commit ends the scan
CommitIsBreaking(commit) ==
    \/ MatchesBreakingPatterns(commit)
    \/ Contains(UpperStr(commit), BREAKING_CHANGE)

\* A scan that also stops at the first feat/fix commit, before a later breaking one.
RECURSIVE ScanStopsAtFeature(_, _, _)
ScanStopsAtFeature(cs, i, has_feature_or_fix) ==
    IF i > Len(cs) THEN (IF has_feature_or_fix THEN "minor" ELSE "none")
    ELSE IF CommitIsBreaking(cs[i]) THEN "major"
    ELSE IF MatchesFeatureFixPatterns(cs[i]) THEN "minor"
    ELSE ScanStopsAtFeature(cs, i + 1, has_feature_or_fix)

\* the for loop of analyze_commits from commit i on, and the final if/elif/else
RECURSIVE ScanCommits(_, _, _)
ScanCommits(cs, i, has_feature_or_fix) ==
    IF i > Len(cs) THEN (IF has_feature_or_fix THEN "minor" ELSE "none")
    ELSE IF MatchesBreakingPatterns(cs[i]) THEN "major"
    ELSE IF Contains(UpperStr(cs[i]), BREAKING_CHANGE) THEN "major"
    ELSE ScanCommits(cs, i + 1, has_feature_or_fix \/ MatchesFeatureFixPatterns(cs[i]))

\* analyze_commits that takes 'no match' for a minor bump
AnalyzeDefaultsToMinor(cs) ==
    IF ScanCommits(cs, 1, FALSE) = "none" THEN "minor" ELSE ScanCommits(cs, 1, FALSE)

analyze_commits(cs) == ScanCommits(cs, 1, FALSE)

(***************************************************************************)
(* Version strings: read_current_version, bump_version, write_version      *)
(***************************************************************************)
\* re.match(r'^\d+\.\d+$', s) without the special case of '$'
DigitsDotDigits(s) ==
    \E d \in 2..(Len(s) - 1) :
        /\ s[d] = "."
        /\ \A i \in (1..Len(s)) \ {d} : IsDigit(s[i])

\* re.match(r'^\d+\.\d+$', s): '$' also matches just before a final newline
MatchVersion(s) ==
    \/ DigitsDotDigits(s)
    \/ /\ Len(s) > 0
       /\ s[Len(s)] = "\n"
       /\ DigitsDotDigits(SubSeq(s, 1, Len(s) - 1))

DigitValue(c) == (CHOOSE i \in DOMAIN Digits : Digits[i] = c) - 1

\* int(s) for a string of decimal digits
RECURSIVE ParseInt(_)
ParseInt(s) ==
    IF s = <<>> THEN 0
    ELSE ParseInt(SubSeq(s, 1, Len(s) - 1)) * 10 + DigitValue(s[Len(s)])

\* f"{n}" for a non-negative int
RECURSIVE FormatInt(_)
FormatInt(n) ==
    IF n < 10 THEN <<Digits[n + 1]>>
    ELSE FormatInt(n \div 10) \o <<Digits[(n % 10) + 1]>>

\* bump_version that forgets to reset minor on a major bump
BumpKeepsMinor(cv, bt) ==
    LET parts == Split(cv, ".")
        major == ParseInt(parts[1])
        minor == ParseInt(parts[2])
    IN  IF bt = "major" THEN FormatInt(major + 1) \o <<".">> \o FormatInt(minor)
        ELSE IF bt = "minor" THEN FormatInt(major) \o <<".">> \o FormatInt(minor + 1)
        ELSE cv

bump_version(cv, bt) ==
    LET parts == Split(cv, ".")
        major == ParseInt(parts[1])
        minor == ParseInt(parts[2])
    IN  IF bt = "major" THEN FormatInt(major + 1) \o <<".">> \o FormatInt(0)
        ELSE IF bt = "minor" THEN FormatInt(major) \o <<".">> \o FormatInt(minor + 1)
        ELSE cv

\* write_version that leaves out the trailing newline
VersionTextNoNewline(v) == v

\* write_version: the text written to the VERSION file, f"{new_version}\n"
VersionText(v) == v \o <<"\n">>

(***************************************************************************)
(* is_conventional_commit                                                  *)
(***************************************************************************)
MERGE_PREFIX == <<"M","e","r","g","e"," ">>
BUMP_PREFIX ==
    <<"c","h","o","r","e",":"," ","b","u","m","p"," ","v","e","r","s","i","o","n">>

\* the alternation (feat|fix|docs|style|refactor|perf|test|chore|build|ci)
ConventionalTypes ==
    { FEAT, FIX,
      <<"d","o","c","s">>, <<"s","t","y","l","e">>,
      <<"r","e","f","a","c","t","o","r">>, <<"p","e","r","f">>,
      <<"t","e","s","t">>, <<"c","h","o","r","e">>,
      <<"b","u","i","l","d">>, <<"c","i">> }

\* the class [a-z0-9\-_] under re.IGNORECASE
IsScopeChar(c) == IsLower(ToLower(c)) \/ IsDigit(c) \/ c \in {"-", "_"}

\* positions right after a group (\([a-z0-9\-_]+\)) that starts at position p
ScopeEnds(m, p) ==
    IF p <= Len(m) /\ m[p] = "("
    THEN { j + 1 : j \in { j \in (p + 2)..Len(m) :
                             /\ m[j] = ")"
                             /\ \A k \in (p + 1)..(j - 1) : IsScopeChar(m[k]) } }
    ELSE {}

\* positions right after the optional group (!)? that starts at position q
BangEnds(m, q) == {q} \cup (IF q <= Len(m) /\ m[q] = "!" THEN {q + 1} ELSE {})

\* the rest of the pattern, ':\s.{1,}', at position r
MatchColonSpaceText(m, r) ==
    /\ r + 2 <= Len(m)
    /\ m[r] = ":"
    /\ IsSpace(m[r + 1])
    /\ IsDot(m[r + 2])

\* re.match(pattern, message, re.IGNORECASE)
MatchConventional(m) ==
    \E t \in ConventionalTypes :
        /\ StartsWithCI(m, t)
        /\ \E q \in {Len(t) + 1} \cup ScopeEnds(m, Len(t) + 1) :
              \E r \in BangEnds(m, q) : MatchColonSpaceText(m, r)

\* is_conventional_commit: the pair (valid, reason)
is_conventional_commit(m) ==
    IF StartsWith(m, MERGE_PREFIX) THEN <<TRUE, "merge">>
    ELSE IF StartsWith(m, BUMP_PREFIX) THEN <<TRUE, "automated">>
    ELSE IF MatchConventional(m) THEN <<TRUE, "conventional">>
    ELSE <<FALSE, "invalid format">>

(***************************************************************************)
(* update_changelog                                                        *)
(***************************************************************************)
\* the literal 20 of 'i < 20'
ScanLimit == 20

SEPARATOR == <<"-","-","-">>

\* the text an f-string gives for bump_type
BumpTypeText(bt) ==
    CASE bt = "major" -> <<"m","a","j","o","r">>
      [] bt = "minor" -> <<"m","i","n","o","r">>
      [] bt = "manual" -> <<"m","a","n","u","a","l">>
      [] OTHER -> <<"n","o","n","e">>

\* f"## [{new_version}]"
EntryMark(v) == <<"#","#"," ","[">> \o v \o <<"]">>

\* the f-string new_entry
NewEntry(v, bt, today) ==
    EntryMark(v) \o <<" ","-"," ">> \o today
    \o <<"\n","\n","#","#","#"," ","A","d","d","e","d","\n",
         "-"," ","A","u","t","o","m","a","t","e","d"," ",
         "v","e","r","s","i","o","n"," ","b","u","m","p"," ","(">>
    \o BumpTypeText(bt)
    \o <<")","\n","\n","#","#","#"," ","C","h","a","n","g","e","d","\n",
         "-"," ","S","e","e"," ","c","o","m","m","i","t"," ",
         "h","i","s","t","o","r","y"," ","f","o","r"," ",
         "d","e","t","a","i","l","e","d"," ","c","h","a","n","g","e","s",
         "\n","\n","-","-","-","\n","\n">>

\* the enumerate loop: the 0-based indices i with line.strip() == '---' and i < 20
SeparatorIndices(lines) ==
    { i \in 0..(Len(lines) - 1) : Strip(lines[i + 1]) = SEPARATOR /\ i < ScanLimit }

\* list.insert(index, x): an index past the end appends
ListInsert(lines, index, x) ==
    LET at == IF index > Len(lines) THEN Len(lines) ELSE index
    IN  SubSeq(lines, 1, at) \o <<x>> \o SubSeq(lines, at + 1, Len(lines))

\* an insertion directly after the separator line
InsertRightAfterSeparator(content, v, bt, today) ==
    IF content = NoFile THEN content
    ELSE IF Contains(content, EntryMark(v)) THEN content
    ELSE LET lines == Split(content, "\n")
             found == SeparatorIndices(lines)
         IN  IF found = {} THEN content
             ELSE LET i == CHOOSE x \in found : \A y \in found : x <= y
                  IN  JoinLines(ListInsert(lines, i + 1, NewEntry(v, bt, today)))

\* update_changelog: the content of CHANGELOG.md after the call
update_changelog(content, v, bt, today) ==
    IF content = NoFile THEN content
    ELSE IF Contains(content, EntryMark(v)) THEN content
    ELSE LET lines == Split(content, "\n")
             found == SeparatorIndices(lines)
         IN  IF found = {} THEN content
             ELSE LET i == CHOOSE x \in found : \A y \in found : x <= y
                      insert_index == i + 2
                  IN  JoinLines(ListInsert(lines, insert_index, NewEntry(v, bt, today)))

(***************************************************************************)
(* get_git_commits_since_last_tag and the steps of main()                  *)
(***************************************************************************)
\* what the git subprocesses give: the stdout of 'git log', or CalledProcessError
GitUnasked == [asked |-> FALSE, ok |-> FALSE, out |-> <<>>]
GitFailed == [asked |-> TRUE, ok |-> FALSE, out |-> <<>>]
GitLog(out) == [asked |-> TRUE, ok |-> TRUE, out |-> out]

\* get_git_commits_since_last_tag: the list it returns
get_git_commits_since_last_tag(git) ==
    IF ~git.ok THEN <<>>
    ELSE IF git.out # <<>> THEN Split(Strip(git.out), "\n")
    ELSE <<>>

\* 'if args.manual:' : None and the empty string are both false
ManualGiven(a) == a.manual # NoManual /\ a.manual # <<>>

\* 'if not commits or commits == ['']'
NoCommits(cs) == cs = <<>> \/ cs = << <<>> >>

\* sys.exit(code) with the files as they are
Exit(code) ==
    /\ pc' = "exited"
    /\ exitCode' = code

(***************************************************************************)
(* Bounds and inputs                                                       *)
(***************************************************************************)
MaxRuns == 2
MaxCommits == 3
MaxDigits == 2
MaxTail == 3

Today == <<"2","0","2","6","-","1","1","-","0","2">>

WellFormedFiles ==
    { <<"1",".","9","\n">>, <<"0",".","0","9","\n">> }

OtherFiles ==
    { NoFile, <<>>, <<"1",".","9">>, <<" ","1",".","9","\n","\n">>,
      <<"v","1",".","9","\n">>, <<"1",".","9",".","0","\n">> }

MainChangelogs ==
    { NoFile,
      <<"#"," ","L","o","g","\n","\n","-","-","-","\n","\n","o","l","d","\n">>,
      <<"#"," ","L","o","g","\n">> }

ManualInputs ==
    { NoManual, <<>>, <<"2",".","0">>, <<" ","2",".","0","\n">>,
      <<"v","2">>, <<"1",".","9">> }

ArgSets == [manual : ManualInputs, type : {"auto", "major", "minor"}, dry_run : BOOLEAN]

GitOutcomes ==
    { GitFailed, GitLog(<<>>), GitLog(<<"\n">>),
      GitLog(<<"d","o","c","s",":"," ","e">>),
      GitLog(<<"d","o","c","s",":"," ","e","\n","f","i","x","(","u",")",":"," ","b","\n">>),
      GitLog(<<"f","e","a","t",":"," ","a","\n","f","e","a","t","!",":"," ","c">>) }

SyncOutcomes == {"absent", "ok", "fail"}

NoArgs == [manual |-> NoManual, type |-> "auto", dry_run |-> FALSE]
NoEnv == [git |-> GitUnasked, sync |-> "unasked", today |-> Today]

(***************************************************************************)
(* main(): one run of the bump script, step by step                        *)
(***************************************************************************)
filesAtStart == <<versionFile0, changelog0>>
validatorVars == <<message, verdict>>

\* lines 259-262: parse_args; a new run starts with the files as the last run left them
ParseArgs ==
    /\ pc \in {"idle", "exited"}
    /\ runs < MaxRuns
    /\ runs' = runs + 1
    /\ args' \in ArgSets
    /\ env' = NoEnv
    /\ pc' = "read"
    /\ current_version' = NoVersion
    /\ new_version' = NoVersion
    /\ bump_type' = "unset"
    /\ commits' = <<>>
    /\ stdout' = <<>>
    /\ exitCode' = 0
    /\ syncRan' = FALSE
    /\ versionFile0' = versionFile
    /\ changelog0' = changelog
    /\ writes' = 0
    /\ UNCHANGED <<versionFile, changelog, lastWritten, validatorVars>>

\* line 264: current_version = read_current_version(version_file_path)
ReadCurrentVersion ==
    /\ pc = "read"
    /\ IF versionFile = NoFile
       THEN Exit(1) /\ UNCHANGED current_version
       ELSE LET version == Strip(versionFile)
            IN  IF ~MatchVersion(version)
                THEN Exit(1) /\ UNCHANGED current_version
                ELSE /\ current_version' = version
                     /\ pc' = "select"
                     /\ UNCHANGED exitCode
    /\ UNCHANGED <<versionFile, changelog, args, env, new_version, bump_type, commits,
                   stdout, syncRan, filesAtStart, lastWritten, writes, runs,
                   validatorVars>>

\* lines 267-277: the --manual branch
SelectManual ==
    /\ pc = "select"
    /\ ManualGiven(args)
    /\ new_version' = Strip(args.manual)
    /\ IF ~MatchVersion(new_version')
       THEN Exit(1) /\ UNCHANGED bump_type
       ELSE /\ bump_type' = "manual"
            /\ pc' = "compare"
            /\ UNCHANGED exitCode
    /\ UNCHANGED <<versionFile, changelog, args, env, current_version, commits,
                   stdout, syncRan, filesAtStart, lastWritten, writes, runs,
                   validatorVars>>

\* lines 281-291 and 296: --type auto
SelectAuto ==
    /\ pc = "select"
    /\ ~ManualGiven(args)
    /\ args.type = "auto"
    /\ \E git \in GitOutcomes :
          /\ env' = [env EXCEPT !.git = git]
          /\ commits' = get_git_commits_since_last_tag(git)
    /\ IF NoCommits(commits')
       THEN /\ stdout' = Append(stdout, current_version)
            /\ Exit(0)
            /\ UNCHANGED <<bump_type, new_version>>
       ELSE /\ bump_type' = analyze_commits(commits')
            /\ new_version' = bump_version(current_version, bump_type')
            /\ pc' = "compare"
            /\ UNCHANGED <<stdout, exitCode>>
    /\ UNCHANGED <<versionFile, changelog, args, current_version, syncRan,
                   filesAtStart, lastWritten, writes, runs, validatorVars>>

\* lines 292-296: --type major / --type minor
SelectType ==
    /\ pc = "select"
    /\ ~ManualGiven(args)
    /\ args.type # "auto"
    /\ bump_type' = args.type
    /\ new_version' = bump_version(current_version, bump_type')
    /\ pc' = "compare"
    /\ UNCHANGED <<versionFile, changelog, args, env, current_version, commits,
                   stdout, exitCode, syncRan, filesAtStart, lastWritten, writes, runs,
                   validatorVars>>

\* lines 298-309 without the dry-run exit
CheckChangedIgnoresDryRun ==
    /\ pc = "compare"
    /\ IF new_version = current_version
       THEN /\ stdout' = Append(stdout, current_version)
            /\ Exit(0)
       ELSE /\ pc' = "write"
            /\ UNCHANGED <<stdout, exitCode>>
    /\ UNCHANGED <<versionFile, changelog, args, env, current_version, new_version,
                   bump_type, commits, syncRan, filesAtStart, lastWritten, writes, runs,
                   validatorVars>>

\* lines 298-309: no change, or --dry-run
CheckChanged ==
    /\ pc = "compare"
    /\ IF new_version = current_version
       THEN /\ stdout' = Append(stdout, current_version)
            /\ Exit(0)
       ELSE IF args.dry_run
       THEN /\ stdout' = Append(stdout, new_version)
            /\ Exit(0)
       ELSE /\ pc' = "write"
            /\ UNCHANGED <<stdout, exitCode>>
    /\ UNCHANGED <<versionFile, changelog, args, env, current_version, new_version,
                   bump_type, commits, syncRan, filesAtStart, lastWritten, writes, runs,
                   validatorVars>>

\* line 312: write_version(new_version, version_file_path)
WriteVersion ==
    /\ pc = "write"
    /\ versionFile' = VersionText(new_version)
    /\ lastWritten' = new_version
    /\ writes' = writes + 1
    /\ pc' = "changelog"
    /\ UNCHANGED <<changelog, args, env, current_version, new_version, bump_type,
                   commits, stdout, exitCode, syncRan, filesAtStart, runs,
                   validatorVars>>

\* line 313: update_changelog(new_version, bump_type, changelog_file_path)
UpdateChangelog ==
    /\ pc = "changelog"
    /\ changelog' = update_changelog(changelog, new_version, bump_type, env.today)
    /\ pc' = "sync"
    /\ UNCHANGED <<versionFile, args, env, current_version, new_version, bump_type,
                   commits, stdout, exitCode, syncRan, filesAtStart, lastWritten,
                   writes, runs, validatorVars>>

\* line 314: run_version_sync(version_file_path)
RunVersionSync ==
    /\ pc = "sync"
    /\ \E outcome \in SyncOutcomes :
          /\ env' = [env EXCEPT !.sync = outcome]
          /\ syncRan' = (outcome # "absent")
          /\ IF outcome = "fail"
             THEN Exit(1)
             ELSE pc' = "finish" /\ UNCHANGED exitCode
    /\ UNCHANGED <<versionFile, changelog, args, current_version, new_version,
                   bump_type, commits, stdout, filesAtStart, lastWritten, writes, runs,
                   validatorVars>>

\* lines 316-323: the final print(new_version); main returns, exit status 0
Finish ==
    /\ pc = "finish"
    /\ stdout' = Append(stdout, new_version)
    /\ Exit(0)
    /\ UNCHANGED <<versionFile, changelog, args, env, current_version, new_version,
                   bump_type, commits, syncRan, filesAtStart, lastWritten, writes, runs,
                   validatorVars>>

RunInit(files) ==
    /\ versionFile \in files
    /\ changelog \in MainChangelogs
    /\ args = NoArgs
    /\ env = NoEnv
    /\ pc = "idle"
    /\ current_version = NoVersion
    /\ new_version = NoVersion
    /\ bump_type = "unset"
    /\ commits = <<>>
    /\ stdout = <<>>
    /\ exitCode = 0
    /\ syncRan = FALSE
    /\ versionFile0 = versionFile
    /\ changelog0 = changelog
    /\ lastWritten = NoVersion
    /\ writes = 0
    /\ runs = 0
    /\ message = <<>>
    /\ verdict = NoVerdict

\* any VERSION file, also a missing or malformed one
Init == RunInit(WellFormedFiles \cup OtherFiles)

\* a VERSION file holding "MAJOR.MINOR\n"
InitWellFormed == RunInit(WellFormedFiles)

Next ==
    \/ ParseArgs
    \/ ReadCurrentVersion
    \/ SelectManual
    \/ SelectAuto
    \/ SelectType
    \/ CheckChanged
    \/ WriteVersion
    \/ UpdateChangelog
    \/ RunVersionSync
    \/ Finish

Spec == Init /\ [][Next]_vars

SpecWellFormed == InitWellFormed /\ [][Next]_vars

(***************************************************************************)
(* The functions on their own: each is called once on an input drawn from  *)
(* a bounded set.                                                          *)
(***************************************************************************)
\* no run of main() is in progress
NoRun ==
    /\ versionFile = NoFile
    /\ versionFile0 = NoFile
    /\ args = NoArgs
    /\ env = NoEnv
    /\ stdout = <<>>
    /\ exitCode = 0
    /\ syncRan = FALSE
    /\ lastWritten = NoVersion
    /\ writes = 0
    /\ runs = 0

runVars == <<versionFile, versionFile0, args, env, stdout, exitCode, syncRan,
             lastWritten, writes, runs>>

SeqsUpTo(S, n) == UNION { [1..k -> S] : k \in 0..n }

CommitSubjects ==
    { <<>>,
      <<"f","e","a","t",":"," ","a">>,
      <<"F","I","X","(","u",")",":"," ","b">>,
      <<"f","e","a","t","!",":"," ","c">>,
      <<"f","i","x","(","u",")","!",":"," ","d">>,
      <<"d","o","c","s",":"," ","e">>,
      <<"B","r","e","a","k","i","n","g"," ","C","h","a","n","g","e",":"," ","f">>,
      <<"d","o","c","s",":"," ","b","r","e","a","k","i","n","g"," ","c","h","a","n","g","e">>,
      <<"f","e","a","t",":"," ","a","!",":"," ","b">>,
      <<"f","i","x","e","s","!",":"," ","x">> }

InitAnalyze ==
    /\ NoRun
    /\ pc = "call"
    /\ commits \in SeqsUpTo(CommitSubjects, MaxCommits)
    /\ bump_type = "unset"
    /\ current_version = NoVersion
    /\ new_version = NoVersion
    /\ changelog = NoFile
    /\ changelog0 = NoFile
    /\ message = <<>>
    /\ verdict = NoVerdict

CallAnalyze ==
    /\ pc = "call"
    /\ bump_type' = analyze_commits(commits)
    /\ pc' = "return"
    /\ UNCHANGED <<runVars, commits, current_version, new_version, changelog,
                   changelog0, validatorVars>>

SpecAnalyze == InitAnalyze /\ [][CallAnalyze]_vars

SampleDigits == {"0", "1", "9"}

DigitStrings == UNION { [1..k -> SampleDigits] : k \in 1..MaxDigits }

InitBump ==
    /\ NoRun
    /\ pc = "call"
    /\ \E a \in DigitStrings, b \in DigitStrings : current_version = a \o <<".">> \o b
    /\ bump_type \in {"major", "minor", "none"}
    /\ new_version = NoVersion
    /\ commits = <<>>
    /\ changelog = NoFile
    /\ changelog0 = NoFile
    /\ message = <<>>
    /\ verdict = NoVerdict

CallBump ==
    /\ pc = "call"
    /\ new_version' = bump_version(current_version, bump_type)
    /\ pc' = "return"
    /\ UNCHANGED <<runVars, commits, current_version, bump_type, changelog,
                   changelog0, validatorVars>>

SpecBump == InitBump /\ [][CallBump]_vars

MessageHeads ==
    { <<>>, FEAT, <<"F","i","x">>, <<"c","i">>, <<"f","e","a","t","s">>,
      <<"w","i","p">>, MERGE_PREFIX, <<"m","e","r","g","e"," ">>,
      BUMP_PREFIX, <<" ","f","i","x">> }
MessageScopes ==
    { <<>>, <<"(","u","-","1","_",")">>, <<"(","U","i",")">>, <<"(",")">>,
      <<"(","a"," ","b",")">> }
MessageBangs == { <<>>, <<"!">>, <<"!","!">> }
MessageColons == { <<>>, <<":">>, <<":"," ">>, <<":","\t">>, <<":","\n">>, <<" ",":"," ">> }
MessageTexts == { <<>>, <<"x">>, <<"\n">>, <<"\n","x">> }

InitValidate ==
    /\ NoRun
    /\ pc = "call"
    /\ \E h \in MessageHeads, s \in MessageScopes, b \in MessageBangs,
          c \in MessageColons, t \in MessageTexts :
          message = h \o s \o b \o c \o t
    /\ verdict = NoVerdict
    /\ bump_type = "unset"
    /\ commits = <<>>
    /\ current_version = NoVersion
    /\ new_version = NoVersion
    /\ changelog = NoFile
    /\ changelog0 = NoFile

CallValidate ==
    /\ pc = "call"
    /\ verdict' = is_conventional_commit(message)
    /\ pc' = "return"
    /\ UNCHANGED <<runVars, commits, current_version, new_version, bump_type,
                   changelog, changelog0, message>>

SpecValidate == InitValidate /\ [][CallValidate]_vars

\* lines of a changelog: a separator, separators with surrounding whitespace,
\* a blank line, text, a longer rule, and the headers of entries 1.1 and 1.10
ChangelogLines ==
    { SEPARATOR, <<" ","-","-","-","\t">>, <<>>, <<"t">>,
      <<"#","#"," ","[","1",".","1","]">>,
      <<"#","#","#"," ","[","1",".","1","0","]"," ","x">> }

PadSizes == {0, 1, ScanLimit - 2, ScanLimit - 1, ScanLimit}

Padding(n) == [i \in 1..n |-> <<"p">>]

InitChangelog ==
    /\ NoRun
    /\ pc = "call"
    /\ \/ changelog = NoFile
       \/ \E n \in PadSizes, tail \in SeqsUpTo(ChangelogLines, MaxTail) :
             /\ Padding(n) \o tail # <<>>
             /\ changelog = JoinLines(Padding(n) \o tail)
    /\ changelog0 = changelog
    /\ new_version \in { <<"1",".","1">>, <<"1",".","1","0">> }
    /\ bump_type \in {"minor", "manual"}
    /\ current_version = NoVersion
    /\ commits = <<>>
    /\ message = <<>>
    /\ verdict = NoVerdict

CallUpdateChangelog ==
    /\ pc = "call"
    /\ changelog' = update_changelog(changelog, new_version, bump_type, env.today)
    /\ pc' = "return"
    /\ UNCHANGED <<runVars, commits, current_version, new_version, bump_type,
                   changelog0, validatorVars>>

SpecChangelog == InitChangelog /\ [][CallUpdateChangelog]_vars

(***************************************************************************)
(* Properties                                                              *)
(***************************************************************************)
Orderings(n) == { f \in [1..n -> 1..n] : \A i, j \in 1..n : f[i] = f[j] => i = j }

Permuted(cs, f) == [i \in 1..Len(cs) |-> cs[f[i]]]

\* the classification stated without a scan order
ClassOf(cs) ==
    IF \E i \in 1..Len(cs) : CommitIsBreaking(cs[i]) THEN "major"
    ELSE IF \E i \in 1..Len(cs) : MatchesFeatureFixPatterns(cs[i]) THEN "minor"
    ELSE "none"

\* C1: analyze_commits returns 'major' when some commit is breaking, wherever it
\* stands; else 'minor' when some commit matches feat/fix with an optional scope and
\* ':'; else 'none'; and every permutation of the same commits gets the same result.
C1_ClassificationIgnoresOrder ==
    pc = "return" =>
        /\ bump_type = ClassOf(commits)
        /\ \A f \in Orderings(Len(commits)) :
              analyze_commits(Permuted(commits, f)) = bump_type

\* a feat/fix commit scanned first, a breaking commit after it, result 'major'
C1_Witness ==
    /\ pc = "return"
    /\ Len(commits) >= 2
    /\ MatchesFeatureFixPatterns(commits[1])
    /\ ~CommitIsBreaking(commits[1])
    /\ CommitIsBreaking(commits[Len(commits)])
    /\ bump_type = "major"

\* a parenthesised scope: '(' , one or more characters other than parentheses, ')'
ScopeEndsAt(c, p) ==
    { j + 1 : j \in { j \in (p + 2)..Len(c) :
                        /\ c[p] = "("
                        /\ c[j] = ")"
                        /\ \A k \in (p + 1)..(j - 1) : c[k] \notin {"(", ")", "\n"} } }

\* a header made of the type, an optional parenthesised scope, then '!' and ':'
StrictBangHeader(c, type) ==
    /\ StartsWithCI(c, type)
    /\ \E q \in {Len(type) + 1} \cup ScopeEndsAt(c, Len(type) + 1) :
          /\ q + 1 <= Len(c)
          /\ c[q] = "!"
          /\ c[q + 1] = ":"

\* the commits the claim allows to be classified as breaking
BreakingAsClaimed(c) ==
    \/ MatchBreakingPrefix(c)
    \/ Contains(UpperStr(c), BREAKING_CHANGE)
    \/ StrictBangHeader(c, FEAT)
    \/ StrictBangHeader(c, FIX)

\* C2: the result is 'major' only when some commit starts with 'BREAKING CHANGE:',
\* contains 'BREAKING CHANGE', or has a header of type feat or fix, an optional
\* parenthesised scope and a '!' directly before the header's colon.
C2_MajorOnlyForStrictHeader ==
    (pc = "return" /\ bump_type = "major") =>
        \E i \in 1..Len(commits) : BreakingAsClaimed(commits[i])

RECURSIVE Pow10(_)
Pow10(k) == IF k = 0 THEN 1 ELSE 10 * Pow10(k - 1)

RECURSIVE SumTo(_, _)
SumTo(f, n) == IF n = 0 THEN 0 ELSE f[n] + SumTo(f, n - 1)

\* the number a string of decimal digits denotes, by place value
Denotes(s) == SumTo([i \in 1..Len(s) |-> DigitValue(s[i]) * Pow10(Len(s) - i)], Len(s))

\* the pair (major, minor) a string 'digits.digits' denotes
PairOf(v) ==
    LET d == CHOOSE i \in 1..Len(v) : v[i] = "."
    IN  <<Denotes(SubSeq(v, 1, d - 1)), Denotes(SubSeq(v, d + 1, Len(v)))>>

\* the pair the arithmetic asks for
BumpedPair(pair, bt) ==
    IF bt = "major" THEN <<pair[1] + 1, 0>>
    ELSE IF bt = "minor" THEN <<pair[1], pair[2] + 1>>
    ELSE pair

\* C3: for a well-formed current version (major, minor), bump_version gives
\* (major+1, 0) for 'major', (major, minor+1) for 'minor' and the current version for
\* 'none'; the result has the form MAJOR.MINOR and parses back to that pair.
C3_BumpArithmetic ==
    pc = "return" =>
        LET want == BumpedPair(PairOf(current_version), bump_type)
            parts == Split(new_version, ".")
        IN  /\ DigitsDotDigits(new_version)
            /\ PairOf(new_version) = want
            /\ Len(parts) = 2
            /\ <<ParseInt(parts[1]), ParseInt(parts[2])>> = want
            /\ bump_type = "none" => new_version = current_version

\* a major bump with a carry into a new digit and a minor that was not 0
C3_Witness ==
    /\ pc = "return"
    /\ bump_type = "major"
    /\ current_version = <<"0","9",".","1","9">>
    /\ new_version = <<"1","0",".","0">>

\* a lowercase letter, a digit, a hyphen or an underscore
IsLowerScopeChar(c) == IsLower(c) \/ IsDigit(c) \/ c \in {"-", "_"}

\* positions right after a parenthesised scope of such characters starting at p
LowerScopeEnds(m, p) ==
    IF p <= Len(m) /\ m[p] = "("
    THEN { j + 1 : j \in { j \in (p + 2)..Len(m) :
                             /\ m[j] = ")"
                             /\ \A k \in (p + 1)..(j - 1) : IsLowerScopeChar(m[k]) } }
    ELSE {}

\* type (any case), optional lowercase scope, optional '!', ': ', one more character
ConventionalAsClaimed(m) ==
    \E t \in ConventionalTypes :
        /\ StartsWithCI(m, t)
        /\ \E q \in {Len(t) + 1} \cup LowerScopeEnds(m, Len(t) + 1) :
              \E r \in BangEnds(m, q) :
                  /\ r + 2 <= Len(m)
                  /\ m[r] = ":"
                  /\ m[r + 1] = " "

VerdictAsClaimed(m) ==
    IF StartsWith(m, MERGE_PREFIX) THEN <<TRUE, "merge">>
    ELSE IF StartsWith(m, BUMP_PREFIX) THEN <<TRUE, "automated">>
    ELSE IF ConventionalAsClaimed(m) THEN <<TRUE, "conventional">>
    ELSE <<FALSE, "invalid format">>

\* C4: is_conventional_commit answers 'merge' for 'Merge ...', else 'automated' for
\* 'chore: bump version...', else 'conventional' exactly for a type of the list (any
\* case), an optional scope of lowercase letters, digits, '-' and '_', an optional
\* '!', then ': ' and at least one character; else 'invalid format'.
C4_ValidatorRules ==
    pc = "return" => verdict = VerdictAsClaimed(message)

FilesUntouched == versionFile = versionFile0 /\ changelog = changelog0

\* C5: a run that ends with a fatal error (non-zero exit), a failure of the sync step
\* included, leaves the version file and the changelog as they were when it started.
C5_FatalRunLeavesFiles ==
    (pc = "exited" /\ exitCode # 0) => FilesUntouched

\* the content of a version file that is 'digits.digits' with or without its newline
FileHoldsVersion(f) ==
    \/ DigitsDotDigits(f)
    \/ Len(f) > 0 /\ f[Len(f)] = "\n" /\ DigitsDotDigits(SubSeq(f, 1, Len(f) - 1))

\* a malformed version string reached the run, in the file or with --manual
MalformedInput ==
    \/ versionFile0 # NoFile /\ ~FileHoldsVersion(versionFile0)
    \/ args.manual # NoManual /\ ~DigitsDotDigits(args.manual)

\* C6: a run given a malformed version string, in the version file or with --manual,
\* exits non-zero, writes no file and prints nothing on stdout.
C6_MalformedVersionIsFatal ==
    (pc = "exited" /\ MalformedInput) =>
        /\ exitCode # 0
        /\ stdout = <<>>
        /\ FilesUntouched
        /\ writes = 0

\* the run computed a version and it is not the current one
ComputedDiffers ==
    /\ current_version # NoVersion
    /\ new_version # NoVersion
    /\ DigitsDotDigits(new_version)
    /\ new_version # current_version

\* C7: a --dry-run run whose computed version differs from the current one prints
\* exactly the computed version, exits 0, leaves both files as they were and does not
\* start the sync step.
C7_DryRunTouchesNothing ==
    (pc = "exited" /\ args.dry_run /\ ComputedDiffers) =>
        /\ stdout = <<new_version>>
        /\ exitCode = 0
        /\ FilesUntouched
        /\ writes = 0
        /\ ~syncRan
        /\ env.sync = "unasked"

\* a dry run of a major bump taken from the commits has ended
C7_Witness ==
    /\ pc = "exited"
    /\ args.dry_run
    /\ ComputedDiffers
    /\ args.type = "auto"
    /\ bump_type = "major"
    /\ stdout = <<new_version>>

AutoMode == ~ManualGiven(args) /\ args.type = "auto"

\* the history is empty, one empty string, unreadable, or has nothing to bump for
NothingToBump ==
    \/ ~env.git.ok
    \/ commits = <<>>
    \/ commits = << <<>> >>
    \/ \A i \in 1..Len(commits) :
          ~CommitIsBreaking(commits[i]) /\ ~MatchesFeatureFixPatterns(commits[i])

WellFormedFile(f) ==
    /\ f # NoFile
    /\ Len(f) > 0
    /\ f[Len(f)] = "\n"
    /\ DigitsDotDigits(SubSeq(f, 1, Len(f) - 1))

\* C10: over any sequence of runs from a well-formed version file, the file always
\* holds 'MAJOR.MINOR' and a newline, no run fails on reading it, a run reads the
\* version the last writing run wrote, and a run writes the file at most once.
C10_VersionFileStaysWellFormed ==
    /\ WellFormedFile(versionFile)
    /\ pc \notin {"idle", "read"} => current_version # NoVersion
    /\ (current_version # NoVersion /\ lastWritten # NoVersion /\ writes = 0)
          => current_version = lastWritten
    /\ writes <= 1

\* a second run has read the version that the first run wrote
C10_Witness ==
    /\ runs = 2
    /\ pc = "select"
    /\ lastWritten = <<"1",".","1","0">>
    /\ current_version = lastWritten

\* the lines of the dated section, as they stand in the file once it is written
SectionLines == Split(NewEntry(new_version, bump_type, env.today), "\n")

\* 1-based numbers of the lines among the first 20 that are '---' once stripped
StrippedSeparators(lines) ==
    { k \in 1..Len(lines) : Strip(lines[k]) = SEPARATOR /\ k <= ScanLimit }

Least(S) == CHOOSE k \in S : \A m \in S : k <= m

\* the lines with the section put in after line number k
WithSectionAfter(lines, k) ==
    SubSeq(lines, 1, k) \o SectionLines \o SubSeq(lines, k + 1, Len(lines))

\* C9 as stated: with a '---' line among the first 20 and no entry yet for the new
\* version, the section directly follows the first '---' line (no original line lies
\* between them) and every original line keeps its place in the order; with no file,
\* or no '---' line among the first 20, the changelog is unchanged. A '---' line is
\* taken as the code takes it: '---' once surrounding whitespace is stripped.
C9_SectionDirectlyAfterSeparator ==
    pc = "return" =>
        IF changelog0 = NoFile THEN changelog = NoFile
        ELSE LET lines == Split(changelog0, "\n")
                 seps == StrippedSeparators(lines)
             IN  IF seps = {} THEN changelog = changelog0
                 ELSE ~Contains(changelog0, EntryMark(new_version)) =>
                         Split(changelog, "\n") = WithSectionAfter(lines, Least(seps))

\* C9 amended: the separator is the first line among the first 20 that is '---' once
\* surrounding whitespace is stripped; with no entry yet for the new version the
\* section is put after the line that follows the separator (at the end of the file
\* when the separator is the last line), so at most that one original line lies
\* between them, and every original line keeps its place in the order; with no file,
\* or no such line among the first 20, the changelog is unchanged.
C9_SectionAfterLineFollowingSeparator ==
    pc = "return" =>
        IF changelog0 = NoFile THEN changelog = NoFile
        ELSE LET lines == Split(changelog0, "\n")
                 seps == StrippedSeparators(lines)
             IN  IF seps = {} THEN changelog = changelog0
                 ELSE ~Contains(changelog0, EntryMark(new_version)) =>
                         LET k == Least(seps)
                             after == IF k < Len(lines) THEN k + 1 ELSE k
                         IN  Split(changelog, "\n") = WithSectionAfter(lines, after)

\* the separator is line 20, two lines follow it, and the section went in between them
C9_Witness ==
    /\ pc = "return"
    /\ changelog # changelog0
    /\ LET lines == Split(changelog0, "\n")
       IN  /\ Len(lines) = ScanLimit + 2
           /\ StrippedSeparators(lines) = {ScanLimit}
           /\ lines[ScanLimit + 1] # <<>>
           /\ Split(changelog, "\n")[ScanLimit + 2] = SectionLines[1]

====
